---- MODULE Spec2Model ----
(***************************************************************************)
(* Label-correction workflow of src/data_centric.py:                       *)
(* process_mislabeled_images scans the non-person directory '0' with an    *)
(* object detector, moves every image with a qualifying person detection   *)
(* into the person directory '1', and logs each move and each per-file     *)
(* error in a timestamped log file.                                        *)
(*                                                                         *)
(* Confidences and thresholds are in thousandths (400 stands for 0.4).     *)
(* File names are sequences of characters.  The clock counts half seconds. *)
(***************************************************************************)
EXTENDS Integers, Sequences, FiniteSets, TLC

\* ---------------------------------------------------------------- bounds
MaxFiles   == 2     \* entries of directory '0', when the workflow runs once
RerunFiles == 1     \* entries of directory '0', when the workflow is re-run
MaxRuns    == 2     \* invocations of process_mislabeled_images in a re-run
MaxTime    == 2     \* last value of the clock, in half seconds
MaxImages  == 2     \* largest max_images given to visualize_mislabeled_images

\* max_images: int = 20
DefaultMaxImages == 20

\* ---------------------------------------------------------------- inputs
NameA == <<"a", ".", "j", "p", "g">>
NameB == <<"b", ".", "J", "P", "E", "G">>
NameC == <<"c", ".", "P", "n", "g">>
NameD == <<"d", "j", "p", "g">>
Names == {NameA, NameB, NameC, NameD}

Box(c, p) == [cls |-> c, conf |-> p]

Raises == [raises |-> TRUE, results |-> <<>>]
Returns(rs) == [raises |-> FALSE, results |-> rs]

\* What the detector does for one image: it raises, or it returns a list of
\* results, each holding a list of boxes.
Outputs ==
    { Raises,
      Returns(<< <<>> >>),
      Returns(<< <<Box(0, 400)>> >>),
      Returns(<< <<Box(0, 500)>> >>),
      Returns(<< <<Box(1, 900)>> >>),
      Returns(<< <<Box(1, 900), Box(0, 300), Box(0, 412), Box(0, 900)>> >>),
      Returns(<< <<Box(0, 500)>>, <<Box(0, 900)>> >>) }

Thresholds == {200, 400}

\* The detector has not been called on the file yet.
NotCalled == [raises |-> FALSE, results |-> <<"not called">>]

\* The names in the person directory '1' before the first run.
PersonDirs == {{}, {NameA}, {NameB, NameC}}

\* ------------------------------------------------------ string operations
UpperCase == <<"A", "B", "C", "D", "E", "F", "G", "H", "I", "J", "K", "L", "M",
               "N", "O", "P", "Q", "R", "S", "T", "U", "V", "W", "X", "Y", "Z">>
LowerCase == <<"a", "b", "c", "d", "e", "f", "g", "h", "i", "j", "k", "l", "m",
               "n", "o", "p", "q", "r", "s", "t", "u", "v", "w", "x", "y", "z">>

LowerChar(c) ==
    IF \E i \in 1..26 : UpperCase[i] = c
    THEN LowerCase[CHOOSE i \in 1..26 : UpperCase[i] = c]
    ELSE c

lower(s) == [i \in 1..Len(s) |-> LowerChar(s[i])]

endswith(s, suffix) ==
    /\ Len(s) >= Len(suffix)
    /\ SubSeq(s, Len(s) - Len(suffix) + 1, Len(s)) = suffix

ImageExtensions ==
    { <<".", "j", "p", "g">>, <<".", "j", "p", "e", "g">>, <<".", "p", "n", "g">> }

\* filename.lower().endswith((".jpg", ".jpeg", ".png"))
HasImageExt(filename) ==
    \E suffix \in ImageExtensions : endswith(lower(filename), suffix)

Digits == <<"0", "1", "2", "3", "4", "5", "6", "7", "8", "9">>

\* f"{confidence:.2f}": two decimals, rounded.  No confidence of Outputs is
\* a tie between two hundredths.
Fmt2(c) ==
    LET h == (c + 5) \div 10
    IN  <<Digits[(h \div 100) + 1], ".", Digits[((h \div 10) % 10) + 1], Digits[(h % 10) + 1]>>

\* strftime("%Y%m%d_%H%M%S"): the clock truncated to whole seconds.
strftime(t) == t \div 2

\* ------------------------------------------------------------- log lines
HeaderLine == [kind |-> "Header", filename |-> <<>>, text |-> <<>>]
BlankLine  == [kind |-> "Blank", filename |-> <<>>, text |-> <<>>]
MovedLine(f, c) == [kind |-> "Moved", filename |-> f, text |-> Fmt2(c)]
ErrorLine(f, e) == [kind |-> "Error", filename |-> f, text |-> <<e>>]

Header_NoBlankLine == <<HeaderLine>>

\* log_file.write("Moved Files (Person Detected in Non-Person Directory):\n\n")
Header == <<HeaderLine, BlankLine>>

NoFile == [exists |-> FALSE, lines |-> <<>>]
File(ls) == [exists |-> TRUE, lines |-> ls]

\* ------------------------------------------------------------ directories
\* A directory is a set of entries; the content of a file is named after
\* the place it was in before the first run.
Entry(n, label) == [name |-> n, content |-> <<label, n>>]
DirOf(S, label) == {Entry(n, label) : n \in S}
NamesOf(dir) == {e.name : e \in dir}
Without(dir, n) == {e \in dir : e.name # n}
ContentOf(dir, n) == (CHOOSE e \in dir : e.name = n).content

Qualifies_AtLeast(class_id, confidence, confidence_threshold) ==
    class_id = 0 /\ confidence >= confidence_threshold

Qualifies_Below(class_id, confidence, confidence_threshold) ==
    class_id = 0 /\ confidence < confidence_threshold

\* class_id == 0 and confidence > confidence_threshold
Qualifies(class_id, confidence, confidence_threshold) ==
    class_id = 0 /\ confidence > confidence_threshold

AfterException_EndsLoop == "close"

\* except Exception: the error is logged and the loop goes on with the next file.
AfterException == "next"

Close_NoFlush(disk, pending) == disk

\* Leaving the with block closes log_file: the pending lines reach the disk.
Close(disk, pending) == disk \o pending

DirsExist_NonPersonOnly(e0, e1) == e0

\* for directory in [non_person_dir, person_dir]: os.path.exists(directory)
DirsExist(e0, e1) == e0 /\ e1

ScanNames_BothDirs(d0, d1) == NamesOf(d0) \cup NamesOf(d1)

\* os.listdir(non_person_dir)
ScanNames(d0, d1) == NamesOf(d0)

\* The orders in which os.listdir may return the names S.
Listings(S) ==
    {l \in [1..Cardinality(S) -> S] : \A i, j \in 1..Cardinality(S) : i # j => l[i] # l[j]}

VARIABLES
    pc,             \* position in process_mislabeled_images, or the caller's
    invocations,    \* how many times the caller runs the workflow
    run,            \* number of invocations so far
    clock,          \* time, in half seconds
    exists0, exists1,   \* whether the class directories exist
    dir0, dir1,     \* entries of the class directories
    logsDir,        \* whether the logs directory exists
    logs,           \* log files on disk, by timestamp
    det,            \* the detector's output for each file name
    confidence_threshold,
    log_file_path,  \* timestamp naming this run's log file
    buf,            \* lines written to log_file and not yet on disk
    moved_count,
    listing, idx,   \* os.listdir result and the position of the loop in it
    filename,
    results, ri, bi,    \* the detector's return and the position of the loops in it
    confidence,
    mislabelled,    \* visualize_mislabeled_images: the flagged images
    max_images,     \* visualize_mislabeled_images: the cap on their number
    passed,         \* history: names passed to the detector in this run
    evaluated,      \* history: boxes tested in this run
    matches,        \* history: qualifying detections found in this run
    relocated,      \* history: names whose move succeeded in this run
    failed,         \* history: names whose move raised in this run
    start0, start1, \* history: the directories when this run was called
    history         \* history: summaries of the completed runs

fs == <<exists0, exists1, dir0, dir1, logsDir, logs>>
locals == <<log_file_path, buf, moved_count, listing, idx, filename, results, ri, bi, confidence>>
vis == <<mislabelled, max_images>>
ghosts == <<passed, evaluated, matches, relocated, failed, start0, start1>>
vars == <<pc, invocations, run, clock, fs, det, confidence_threshold, locals, vis, ghosts, history>>

InitWith(maxFiles, times) ==
    /\ pc = "idle"
    /\ invocations = times
    /\ run = 0
    /\ clock = 0
    /\ exists0 \in BOOLEAN
    /\ exists1 \in BOOLEAN
    /\ dir0 \in {DirOf(S, "0") : S \in {T \in SUBSET Names : exists0 /\ Cardinality(T) <= maxFiles}}
                \cup {{}}
    /\ dir1 \in {DirOf(S, "1") : S \in {T \in PersonDirs : exists1}} \cup {{}}
    /\ logsDir = FALSE
    /\ logs = [t \in 0..strftime(MaxTime) |-> NoFile]
    /\ det = [n \in Names |-> NotCalled]
    /\ confidence_threshold \in Thresholds
    /\ log_file_path = 0
    /\ buf = <<>>
    /\ moved_count = 0
    /\ listing = <<>>
    /\ idx = 1
    /\ filename = <<>>
    /\ results = <<>>
    /\ ri = 1
    /\ bi = 1
    /\ confidence = 0
    /\ mislabelled = <<>>
    /\ max_images = DefaultMaxImages
    /\ passed = {}
    /\ evaluated = {}
    /\ matches = {}
    /\ relocated = {}
    /\ failed = {}
    /\ start0 = dir0
    /\ start1 = dir1
    /\ history = <<>>

\* The workflow is run once.
Init == InitWith(MaxFiles, 1)

\* The workflow is run again after it has ended.
InitRerun == InitWith(RerunFiles, MaxRuns)

\* log_file.write(line): the line goes to the buffer of the open file; a
\* full buffer is written to the file on disk.
Write(ls, flush) ==
    IF flush
    THEN /\ logs' = [logs EXCEPT ![log_file_path] = File(@.lines \o buf \o ls)]
         /\ buf' = <<>>
    ELSE /\ buf' = buf \o ls
         /\ UNCHANGED logs

\* The caller invokes process_mislabeled_images(model_path, dataset_root).
Call ==
    /\ pc \in {"idle", "returned", "raised"}
    /\ run < invocations
    /\ run' = run + 1
    /\ pc' = "load"
    /\ log_file_path' = 0
    /\ buf' = <<>>
    /\ moved_count' = 0
    /\ listing' = <<>>
    /\ idx' = 1
    /\ filename' = <<>>
    /\ results' = <<>>
    /\ ri' = 1
    /\ bi' = 1
    /\ confidence' = 0
    /\ passed' = {}
    /\ evaluated' = {}
    /\ matches' = {}
    /\ relocated' = {}
    /\ failed' = {}
    /\ start0' = dir0
    /\ start1' = dir1
    /\ UNCHANGED <<vis, invocations, clock, fs, det, confidence_threshold, history>>

\* Time passes between two invocations.
Tick ==
    /\ pc \in {"returned", "raised"}
    /\ clock < MaxTime
    /\ clock' = clock + 1
    /\ UNCHANGED <<vis, pc, invocations, run, fs, det, confidence_threshold, locals, ghosts, history>>

\* model = YOLO(model_path), which raises when the model cannot be loaded.
LoadModel ==
    /\ pc = "load"
    /\ \E ok \in BOOLEAN : pc' = IF ok THEN "validate" ELSE "raised"
    /\ UNCHANGED <<vis, invocations, run, clock, fs, det, confidence_threshold, locals, ghosts, history>>

\* Both class directories must exist.
ValidateDirs ==
    /\ pc = "validate"
    /\ pc' = IF DirsExist(exists0, exists1) THEN "open" ELSE "raised"
    /\ UNCHANGED <<vis, invocations, run, clock, fs, det, confidence_threshold, locals, ghosts, history>>

\* makedirs, the timestamp, open(log_file_path, "w"), the header, os.listdir.
OpenLog ==
    /\ pc = "open"
    /\ logsDir' = TRUE
    /\ log_file_path' = strftime(clock)
    /\ moved_count' = 0
    /\ \E flush \in BOOLEAN :
          /\ logs' = [logs EXCEPT ![strftime(clock)] =
                         File(IF flush THEN Header ELSE <<>>)]
          /\ buf' = IF flush THEN <<>> ELSE Header
    /\ listing' \in Listings(ScanNames(dir0, dir1))
    /\ idx' = 1
    /\ pc' = "next"
    /\ UNCHANGED <<vis, invocations, run, clock, exists0, exists1, dir0, dir1, det, confidence_threshold,
                   filename, results, ri, bi, confidence, ghosts, history>>

\* for filename in ...: if filename.lower().endswith(...)
NextFile ==
    /\ pc = "next"
    /\ IF idx > Len(listing)
       THEN /\ pc' = "close"
            /\ UNCHANGED <<idx, filename>>
       ELSE /\ filename' = listing[idx]
            /\ idx' = idx + 1
            /\ pc' = IF HasImageExt(listing[idx]) THEN "detect" ELSE "next"
    /\ UNCHANGED <<vis, invocations, run, clock, fs, det, confidence_threshold, log_file_path, buf,
                   moved_count, listing, results, ri, bi, confidence, ghosts, history>>

\* results = model(file_path, verbose=False); an exception is logged.  The
\* detector gives the same output each time it is called on a file.
Detect ==
    /\ pc = "detect"
    /\ passed' = passed \cup {filename}
    /\ \E out \in (IF det[filename] = NotCalled THEN Outputs ELSE {det[filename]}) :
          /\ det' = [det EXCEPT ![filename] = out]
          /\ IF out.raises
             THEN /\ \E flush \in BOOLEAN : Write(<<ErrorLine(filename, "detect")>>, flush)
                  /\ pc' = AfterException
                  /\ UNCHANGED <<results, ri, bi>>
             ELSE /\ results' = out.results
                  /\ ri' = 1
                  /\ bi' = 1
                  /\ pc' = "eval"
                  /\ UNCHANGED <<logs, buf>>
    /\ UNCHANGED <<vis, invocations, run, clock, exists0, exists1, dir0, dir1, logsDir,
                   confidence_threshold, log_file_path, moved_count, listing, idx,
                   filename, confidence, evaluated, matches, relocated, failed,
                   start0, start1, history>>

\* for result in results: for box in result.boxes: the test of one box.
EvalBox ==
    /\ pc = "eval"
    /\ IF ri > Len(results)
       THEN /\ pc' = "next"
            /\ UNCHANGED <<ri, bi, confidence, evaluated, matches>>
       ELSE IF bi > Len(results[ri])
       THEN /\ ri' = ri + 1
            /\ bi' = 1
            /\ UNCHANGED <<pc, confidence, evaluated, matches>>
       ELSE LET box == results[ri][bi]
            IN  /\ confidence' = box.conf
                /\ evaluated' = evaluated \cup {<<filename, ri, bi>>}
                /\ IF Qualifies(box.cls, box.conf, confidence_threshold)
                   THEN /\ pc' = "move"
                        /\ matches' = matches \cup
                              {[name |-> filename, conf |-> box.conf, ri |-> ri, bi |-> bi]}
                        /\ UNCHANGED <<ri, bi>>
                   ELSE /\ bi' = bi + 1
                        /\ UNCHANGED <<pc, ri, matches>>
    /\ UNCHANGED <<vis, invocations, run, clock, fs, det, confidence_threshold, log_file_path, buf,
                   moved_count, listing, idx, filename, results, passed, relocated,
                   failed, start0, start1, history>>

\* shutil.move(file_path, new_path): a rename that replaces a file of the
\* same name in the person directory; it raises when the source is gone or
\* the rename is refused, and the exception is logged.
Move ==
    /\ pc = "move"
    /\ \E outcome \in {"ok", "denied"} :
          IF filename \in NamesOf(dir0) /\ outcome = "ok"
          THEN /\ dir0' = Without(dir0, filename)
               /\ dir1' = Without(dir1, filename) \cup
                             {[name |-> filename, content |-> ContentOf(dir0, filename)]}
               /\ relocated' = relocated \cup {filename}
               /\ pc' = "logmoved"
               /\ UNCHANGED <<logs, buf, failed>>
          ELSE /\ outcome = "denied"
               /\ \E flush \in BOOLEAN : Write(<<ErrorLine(filename, "move")>>, flush)
               /\ failed' = IF filename \in NamesOf(dir0) THEN failed \cup {filename} ELSE failed
               /\ pc' = AfterException
               /\ UNCHANGED <<dir0, dir1, relocated>>
    /\ UNCHANGED <<vis, invocations, run, clock, exists0, exists1, logsDir, det, confidence_threshold,
                   log_file_path, moved_count, listing, idx, filename, results, ri, bi,
                   confidence, passed, evaluated, matches, start0, start1, history>>

\* log_file.write("Moved ..."), moved_count += 1, break out of the box loop.
LogMoved ==
    /\ pc = "logmoved"
    /\ \E flush \in BOOLEAN : Write(<<MovedLine(filename, confidence)>>, flush)
    /\ moved_count' = moved_count + 1
    /\ ri' = ri + 1
    /\ bi' = 1
    /\ pc' = "eval"
    /\ UNCHANGED <<vis, invocations, run, clock, exists0, exists1, dir0, dir1, logsDir, det,
                   confidence_threshold, log_file_path, listing, idx, filename, results,
                   confidence, ghosts, history>>

\* The with block closes the file; return moved_count, log_file_path.
Return ==
    /\ pc = "close"
    /\ logs' = [logs EXCEPT ![log_file_path] = File(Close(@.lines, buf))]
    /\ buf' = <<>>
    /\ pc' = "returned"
    /\ history' = Append(history,
                     [moved_count |-> moved_count, log_file_path |-> log_file_path,
                      relocated |-> relocated, selected |-> {m.name : m \in matches},
                      failed |-> failed])
    /\ UNCHANGED <<vis, invocations, run, clock, exists0, exists1, dir0, dir1, logsDir, det,
                   confidence_threshold, log_file_path, moved_count, listing, idx,
                   filename, results, ri, bi, confidence, ghosts>>

Next ==
    \/ Call
    \/ Tick
    \/ LoadModel
    \/ ValidateDirs
    \/ OpenLog
    \/ NextFile
    \/ Detect
    \/ EvalBox
    \/ Move
    \/ LogMoved
    \/ Return

Spec == Init /\ [][Next]_vars

SpecRerun == InitRerun /\ [][Next]_vars

\* ------------------------------------------- visualize_mislabeled_images
\* The caller is about to call visualize_mislabeled_images with a cap.
InitVisualize ==
    /\ pc = "idle"
    /\ invocations = 1
    /\ run = 0
    /\ clock = 0
    /\ exists0 \in BOOLEAN
    /\ exists1 \in BOOLEAN
    /\ dir0 \in {DirOf(S, "0") : S \in {T \in SUBSET Names : exists0 /\ Cardinality(T) <= MaxFiles}}
                \cup {{}}
    /\ dir1 = {}
    /\ logsDir = FALSE
    /\ logs = [t \in 0..strftime(MaxTime) |-> NoFile]
    /\ det = [n \in Names |-> NotCalled]
    /\ confidence_threshold \in Thresholds
    /\ log_file_path = 0
    /\ buf = <<>>
    /\ moved_count = 0
    /\ listing = <<>>
    /\ idx = 1
    /\ filename = <<>>
    /\ results = <<>>
    /\ ri = 1
    /\ bi = 1
    /\ confidence = 0
    /\ mislabelled = <<>>
    /\ max_images \in 0..MaxImages
    /\ passed = {}
    /\ evaluated = {}
    /\ matches = {}
    /\ relocated = {}
    /\ failed = {}
    /\ start0 = dir0
    /\ start1 = dir1
    /\ history = <<>>

\* What the visualization leaves alone: the dataset, the logs, the counters.
VisFrame ==
    UNCHANGED <<invocations, clock, fs, confidence_threshold, log_file_path, buf,
                moved_count, max_images, relocated, failed, start0, start1, history>>

\* The caller invokes visualize_mislabeled_images(model_path, dataset_root, ...).
VisCall ==
    /\ pc = "idle"
    /\ run < invocations
    /\ run' = run + 1
    /\ pc' = "vis_load"
    /\ UNCHANGED <<det, listing, idx, filename, results, ri, bi, confidence, mislabelled,
                   passed, evaluated, matches>>
    /\ VisFrame

\* model = YOLO(model_path), which raises when the model cannot be loaded.
VisLoadModel ==
    /\ pc = "vis_load"
    /\ \E ok \in BOOLEAN : pc' = IF ok THEN "vis_validate" ELSE "vis_raised"
    /\ UNCHANGED <<run, det, listing, idx, filename, results, ri, bi, confidence,
                   mislabelled, passed, evaluated, matches>>
    /\ VisFrame

\* The non-person directory must exist; mislabelled = []; os.listdir.
VisValidate ==
    /\ pc = "vis_validate"
    /\ IF exists0
       THEN /\ mislabelled' = <<>>
            /\ listing' \in Listings(ScanNames(dir0, dir1))
            /\ idx' = 1
            /\ pc' = "vis_next"
       ELSE /\ pc' = "vis_raised"
            /\ UNCHANGED <<mislabelled, listing, idx>>
    /\ UNCHANGED <<run, det, filename, results, ri, bi, confidence, passed, evaluated, matches>>
    /\ VisFrame

\* for filename in ...: if filename.lower().endswith(...)
VisNextFile ==
    /\ pc = "vis_next"
    /\ IF idx > Len(listing)
       THEN /\ pc' = "vis_render"
            /\ UNCHANGED <<idx, filename>>
       ELSE /\ filename' = listing[idx]
            /\ idx' = idx + 1
            /\ pc' = IF HasImageExt(listing[idx]) THEN "vis_detect" ELSE "vis_next"
    /\ UNCHANGED <<run, det, listing, results, ri, bi, confidence, mislabelled,
                   passed, evaluated, matches>>
    /\ VisFrame

\* results = model(file_path, verbose=False); an exception is printed and the
\* loop goes on with the next file.
VisDetect ==
    /\ pc = "vis_detect"
    /\ passed' = passed \cup {filename}
    /\ \E out \in (IF det[filename] = NotCalled THEN Outputs ELSE {det[filename]}) :
          /\ det' = [det EXCEPT ![filename] = out]
          /\ IF out.raises
             THEN /\ pc' = "vis_next"
                  /\ UNCHANGED <<results, ri, bi>>
             ELSE /\ results' = out.results
                  /\ ri' = 1
                  /\ bi' = 1
                  /\ pc' = "vis_eval"
    /\ UNCHANGED <<run, listing, idx, filename, confidence, mislabelled, evaluated, matches>>
    /\ VisFrame

\* for result in results: for box in result.boxes: the test of one box; a
\* qualifying box is appended and ends the loop over the boxes of its result.
VisEvalBox ==
    /\ pc = "vis_eval"
    /\ IF ri > Len(results)
       THEN /\ pc' = "vis_cap"
            /\ UNCHANGED <<ri, bi, confidence, mislabelled, evaluated, matches>>
       ELSE IF bi > Len(results[ri])
       THEN /\ ri' = ri + 1
            /\ bi' = 1
            /\ UNCHANGED <<pc, confidence, mislabelled, evaluated, matches>>
       ELSE LET box == results[ri][bi]
            IN  /\ confidence' = box.conf
                /\ evaluated' = evaluated \cup {<<filename, ri, bi>>}
                /\ IF Qualifies(box.cls, box.conf, confidence_threshold)
                   THEN /\ mislabelled' = Append(mislabelled, <<"0", filename, box.conf>>)
                        /\ matches' = matches \cup
                              {[name |-> filename, conf |-> box.conf, ri |-> ri, bi |-> bi]}
                        /\ ri' = ri + 1
                        /\ bi' = 1
                        /\ UNCHANGED pc
                   ELSE /\ bi' = bi + 1
                        /\ UNCHANGED <<pc, ri, mislabelled, matches>>
    /\ UNCHANGED <<run, det, listing, idx, filename, results, passed>>
    /\ VisFrame

\* if len(mislabelled) >= max_images: break
VisCheckCap ==
    /\ pc = "vis_cap"
    /\ pc' = IF Len(mislabelled) >= max_images THEN "vis_render" ELSE "vis_next"
    /\ UNCHANGED <<run, det, listing, idx, filename, results, ri, bi, confidence,
                   mislabelled, passed, evaluated, matches>>
    /\ VisFrame

\* The list is printed and handed to the rendering of the grid.
VisRender ==
    /\ pc = "vis_render"
    /\ pc' = "vis_done"
    /\ UNCHANGED <<run, det, listing, idx, filename, results, ri, bi, confidence,
                   mislabelled, passed, evaluated, matches>>
    /\ VisFrame

NextVisualize ==
    \/ VisCall
    \/ VisLoadModel
    \/ VisValidate
    \/ VisNextFile
    \/ VisDetect
    \/ VisEvalBox
    \/ VisCheckCap
    \/ VisRender

SpecVisualize == InitVisualize /\ [][NextVisualize]_vars

\* ================================================================ claims
\* Notions the claims use, stated apart from the definitions above.

\* The lines written to this run's log so far, on disk or pending.
Written == logs[log_file_path].lines \o buf

\* The lines of this run's log file on disk.
OnDisk == logs[log_file_path].lines

LinesOfKind(ls, k) == {i \in 1..Len(ls) : ls[i].kind = k}
LinesFor(ls, k, n) == {i \in 1..Len(ls) : ls[i].kind = k /\ ls[i].filename = n}

Listed == {listing[i] : i \in 1..Len(listing)}

\* The names of Names that end, whatever the case, with .jpg, .jpeg or .png.
ImageNames == {NameA, NameB, NameC}

\* Names with the answer the extension filter must give for each.
ExtensionCases ==
    { <<NameA, TRUE>>, <<NameB, TRUE>>, <<NameC, TRUE>>, <<NameD, FALSE>>,
      <<<<"x", ".", "J", "P", "G">>, TRUE>>,
      <<<<"x", ".", "j", "p", "e", "g">>, TRUE>>,
      <<<<"x", ".", "p", "n", "g">>, TRUE>>,
      <<<<".", "j", "p", "g">>, TRUE>>,
      <<<<"x", ".", "j", "p", "g", ".", "t", "x", "t">>, FALSE>>,
      <<<<"x", ".", "j", "p">>, FALSE>>,
      <<<<"x", ".", "g", "i", "f">>, FALSE>>,
      <<<<"x", ".", "j", "p", "g", "g">>, FALSE>>,
      <<<<"j", "p", "e", "g">>, FALSE>>,
      <<<<>>, FALSE>> }

\* The detector returned, for the file n, a person box above the threshold t.
ReturnedPersonAbove(n, t) ==
    /\ det[n] # NotCalled
    /\ ~det[n].raises
    /\ \E r \in 1..Len(det[n].results) : \E b \in 1..Len(det[n].results[r]) :
          det[n].results[r][b].cls = 0 /\ det[n].results[r][b].conf > t

\* The files this run selected for relocation.
Selected == {m.name : m \in matches}

\* The files this run took out of '0' and put into '1'.
ActuallyRelocated ==
    {e.name : e \in {x \in start0 : x \notin dir0 /\ x \in dir1}}

\* C1: an entry of directory '0' is selected for relocation exactly when its
\* name ends, whatever the case, with .jpg, .jpeg or .png and the detector
\* returns for it a person box with a confidence above the threshold; a
\* confidence equal to the threshold and a box of another class do not
\* count, and no entry with another extension is passed to the detector.
C1_MatchIffQualifying ==
    /\ run = 0 => \A c \in ExtensionCases : HasImageExt(c[1]) = c[2]
    /\ passed \subseteq ImageNames
    /\ \A n \in Selected :
          n \in Listed /\ n \in ImageNames /\ ReturnedPersonAbove(n, confidence_threshold)
    /\ pc = "returned" =>
          \A n \in Listed :
             (n \in ImageNames /\ ReturnedPersonAbove(n, confidence_threshold))
                => n \in Selected

\* A finished run in which a person box exactly at the threshold and a box of
\* another class selected nothing, while another file was selected.
C1_Witness ==
    /\ pc = "returned"
    /\ confidence_threshold = 400
    /\ \E n, m \in passed :
          /\ n \in Selected
          /\ det[m] \in {Returns(<< <<Box(0, 400)>> >>), Returns(<< <<Box(1, 900)>> >>)}
          /\ m \notin Selected

\* C2: when the detector raises for a file, one error line for that file is
\* written, the file is not selected and stays in '0', and the run goes on:
\* at the end every image of the listing has been passed to the detector.
C2_DetectionErrorIsLocal ==
    /\ \A n \in passed :
          det[n].raises =>
             /\ Cardinality(LinesFor(Written, "Error", n)) = 1
             /\ n \notin Selected
             /\ n \in NamesOf(dir0)
    /\ pc = "returned" =>
          /\ \A n \in Listed : n \in ImageNames => n \in passed
          /\ moved_count = Cardinality(Selected \cap ActuallyRelocated)

\* The detector raised for the first file, the second was moved: the count is
\* 1 and the log holds an error line and a moved line.
C2_Witness ==
    /\ pc = "returned"
    /\ Len(listing) = 2
    /\ det[listing[1]].raises
    /\ listing[2] \in ActuallyRelocated
    /\ moved_count = 1
    /\ LinesFor(OnDisk, "Error", listing[1]) # {}
    /\ LinesFor(OnDisk, "Moved", listing[2]) # {}

\* C3 (as claimed): a move that fails, also the move of a file whose name is
\* already in '1', leaves the source in '0' and the target as it was, writes
\* an error line, is not counted, and the run goes on.
C3_MoveFailureIsLocal ==
    \A m \in matches :
       (/\ m.name \in failed \/ m.name \in NamesOf(start1)
        /\ m.name # filename \/ pc # "move") =>
          /\ m.name \in NamesOf(dir0)
          /\ m.name \in NamesOf(start1) => Entry(m.name, "1") \in dir1
          /\ m.name \notin relocated
          /\ LinesFor(Written, "Moved", m.name) = {}
          /\ LinesFor(Written, "Error", m.name) # {}
          /\ pc # "raised"

\* C4: when the model cannot be loaded or a class directory is missing, the
\* run raises before any file is passed to the detector or moved, and
\* before any log file is made.
C4_FatalErrorBeforeAnyFile ==
    /\ pc = "raised" =>
          /\ passed = {} /\ matches = {} /\ relocated = {}
          /\ dir0 = start0 /\ dir1 = start1
          /\ listing = <<>>
    /\ (~exists0 \/ ~exists1) =>
          /\ pc \in {"idle", "load", "validate", "raised"}
          /\ passed = {} /\ dir0 = start0 /\ dir1 = start1
          /\ \A t \in DOMAIN logs : ~logs[t].exists

\* The person directory is missing, '0' holds an image, and the run has raised.
C4_Witness ==
    /\ pc = "raised"
    /\ ~exists1
    /\ NamesOf(dir0) \cap ImageNames # {}

\* C5: at the return, moved_count is the number of files this run took out
\* of '0' and put into '1', and the number of Moved lines of the log file
\* at the returned path.
C5_CountIsMovesAndLines ==
    pc = "returned" =>
       /\ moved_count = Cardinality(ActuallyRelocated)
       /\ moved_count = Cardinality(LinesOfKind(logs[history[Len(history)].log_file_path].lines, "Moved"))
       /\ history[Len(history)].moved_count = moved_count
       /\ \A n \in ActuallyRelocated :
             Cardinality(LinesFor(logs[history[Len(history)].log_file_path].lines, "Moved", n)) = 1

\* A run that moved one file, failed to move another, and returned 1.
C5_Witness ==
    /\ pc = "returned"
    /\ moved_count = 1
    /\ failed # {}
    /\ Cardinality(ActuallyRelocated) = 1

\* C6 (as claimed): a run without a match makes the log file, which holds
\* the header and the blank line and nothing else, and returns 0.
C6_NoMatchHeaderOnly ==
    (pc = "returned" /\ matches = {}) =>
       /\ logs[log_file_path].exists
       /\ OnDisk = <<HeaderLine, BlankLine>>
       /\ moved_count = 0

\* C6 (amended): a run without a match makes the log file, which starts
\* with the header and the blank line and holds no Moved line, and returns
\* 0; the lines after the header are the error lines of the files the
\* detector raised for, and there is none when it raised for no file.
C6_NoMatchNoMovedLine ==
    (pc = "returned" /\ matches = {}) =>
       /\ logs[log_file_path].exists
       /\ moved_count = 0
       /\ Len(OnDisk) >= 2
       /\ SubSeq(OnDisk, 1, 2) = <<HeaderLine, BlankLine>>
       /\ \A i \in 3..Len(OnDisk) :
             /\ OnDisk[i].kind = "Error"
             /\ OnDisk[i].filename \in passed
             /\ det[OnDisk[i].filename].raises
       /\ (\A n \in passed : ~det[n].raises) => OnDisk = <<HeaderLine, BlankLine>>

\* A run that passed a file to the detector, found no match, and left a log
\* of the header alone.
C6_Witness ==
    /\ pc = "returned"
    /\ matches = {}
    /\ passed # {}
    /\ OnDisk = <<HeaderLine, BlankLine>>
    /\ moved_count = 0

\* C7 (as claimed): a run after a completed run selects no file the earlier
\* run moved, and returns a count that is at most the earlier run's.
C7_RerunMovesNoMore ==
    \A i \in 1..Len(history) : \A j \in 1..Len(history) :
       (j = i + 1) =>
          /\ history[i].relocated \cap history[j].selected = {}
          /\ history[j].moved_count <= history[i].moved_count

\* C7 (amended): a run after a completed run selects no file an earlier run
\* moved; it moves only files whose move failed in the run before it, so its
\* count is at most the number of those files.
C7_RerunMovesOnlyFailed ==
    \A i \in 1..Len(history) : \A j \in 1..Len(history) :
       /\ i < j => history[i].relocated \cap history[j].selected = {}
       /\ i < j => history[i].relocated \cap history[j].relocated = {}
       /\ (j = i + 1) =>
             /\ history[j].relocated \subseteq history[i].failed
             /\ history[j].moved_count <= Cardinality(history[i].failed)
             /\ history[i].failed = {} => history[j].moved_count <= history[i].moved_count

\* Two completed runs, the first of which moved a file.
C7_Witness ==
    /\ pc = "returned"
    /\ Len(history) = 2
    /\ history[1].relocated # {}
    /\ history[1].moved_count = 1
    /\ history[2].moved_count = 0

RECURSIVE Flat(_)
\* The boxes of all results, in the order the loops visit them.
Flat(rs) == IF rs = <<>> THEN <<>> ELSE Head(rs) \o Flat(Tail(rs))

\* The confidence of the first qualifying box of an output, if there is one.
FirstQualifying(out, t) ==
    LET boxes == Flat(out.results)
        q == {i \in 1..Len(boxes) : Qualifies(boxes[i].cls, boxes[i].conf, t)}
    IN  IF q = {} THEN {}
        ELSE {boxes[CHOOSE i \in q : \A k \in q : i <= k].conf}

\* The matches of the scan of this run's files with the threshold t.
MatchesAt(t) ==
    UNION {{<<n, c>> : c \in FirstQualifying(det[n], t)} :
              n \in {x \in passed : ~det[x].raises}}

FilesAt(t) == {m[1] : m \in MatchesAt(t)}

\* The first match this run found for each file.
FirstMatches ==
    {<<m.name, m.conf>> :
        m \in {x \in matches :
                 \A y \in matches :
                    y.name = x.name => (x.ri < y.ri \/ (x.ri = y.ri /\ x.bi <= y.bi))}}

ThresholdCases == {0, 200, 299, 300, 400, 411, 412, 500, 899, 900, 1000}

\* C8 (as claimed): with a higher threshold the scan gives a subset of the
\* matches, a match being the file with the confidence of its first
\* qualifying detection.
C8_MatchesMonotone ==
    \A t1 \in Thresholds : \A t2 \in Thresholds :
       t1 < t2 => MatchesAt(t2) \subseteq MatchesAt(t1)

\* C8 (amended): with a higher threshold the scan matches a subset of the
\* files; the confidence recorded for a file is that of its first qualifying
\* detection under the threshold of the run.
C8_MatchedFilesMonotone ==
    /\ run = 0 =>
          \A out \in Outputs \ {Raises} : \A t1 \in ThresholdCases : \A t2 \in ThresholdCases :
             (t1 < t2 /\ FirstQualifying(out, t2) # {}) => FirstQualifying(out, t1) # {}
    /\ \A t1 \in Thresholds : \A t2 \in Thresholds :
          t1 < t2 => FilesAt(t2) \subseteq FilesAt(t1)
    /\ pc = "returned" => FirstMatches = MatchesAt(confidence_threshold)

\* A run with threshold 0.4 recorded 0.412 for a file for which the scan
\* with threshold 0.2 records 0.3, beside a file matched only with 0.2.
C8_Witness ==
    /\ pc = "returned"
    /\ confidence_threshold = 400
    /\ \E n \in passed :
          /\ <<n, 412>> \in FirstMatches
          /\ <<n, 300>> \in MatchesAt(200)
    /\ FilesAt(400) # FilesAt(200)

\* C9 (as claimed): the content of every file that was in the dataset when
\* the run started is in exactly one class directory, '1' keeps what it
\* had, and '0' gets nothing new.
C9_PartitionPreserved ==
    /\ \A e \in start0 \cup start1 :
          Cardinality({x \in dir0 : x.content = e.content})
             + Cardinality({x \in dir1 : x.content = e.content}) = 1
    /\ start1 \subseteq dir1
    /\ dir0 \subseteq start0

\* C10 (as claimed): a file is selected at most once in a run, and no box
\* of a file is tested after its first qualifying box.
C10_OneMatchPerFile ==
    /\ \A m1 \in matches : \A m2 \in matches : m1.name = m2.name => m1 = m2
    /\ \A m \in matches : \A e \in evaluated :
          e[1] = m.name => (e[2] < m.ri \/ (e[2] = m.ri /\ e[3] <= m.bi))

\* The files with a Moved line among the lines ls.
MovedIn(ls) == {ls[i].filename : i \in LinesOfKind(ls, "Moved")}

\* C11 (as claimed): a Moved line is written only after its file is in '1';
\* it is in the log file before the detector is called on the next file;
\* so at any point where the run may be interrupted every Moved line names
\* a file that is in '1', and the log file holds a Moved line for every file
\* moved so far but at most the last one.
C11_MoveThenLog ==
    /\ MovedIn(Written) \subseteq relocated
    /\ MovedIn(Written) \subseteq NamesOf(dir1)
    /\ pc = "detect" => relocated \subseteq MovedIn(OnDisk)
    /\ Cardinality(relocated \ MovedIn(OnDisk)) <= 1

\* C12 (as claimed): no step of a later run changes the log file of a
\* completed run.
C12_EarlierLogUntouched ==
    [][\A i \in 1..Len(history) :
          logs'[history[i].log_file_path] = logs[history[i].log_file_path]]_vars

\* The file names of the flagged images.
Flagged == {mislabelled[i][2] : i \in 1..Len(mislabelled)}

\* C13 (as claimed): the list handed to the rendering holds at most
\* max_images entries and at most one entry for a file; no box of a file is
\* tested after a qualifying box of that file; and the scan leaves files
\* unvisited only when the cap is reached.
C13_CappedOnePerFile ==
    /\ pc = "vis_render" =>
          /\ Len(mislabelled) <= max_images
          /\ Cardinality(Flagged) = Len(mislabelled)
          /\ idx <= Len(listing) => Len(mislabelled) >= max_images
    /\ \A m \in matches : \A e \in evaluated :
          e[1] = m.name => (e[2] < m.ri \/ (e[2] = m.ri /\ e[3] <= m.bi))

====
